---- MODULE Spec2Model ----
(***************************************************************************)
(* Model of cyanide/builder.py: Builder.build and its nested helper        *)
(* find_matched_atom_indices.                                              *)
(*                                                                         *)
(* Geometry is one-dimensional.  Lengths are integers counted in units of  *)
(* 0.0005, so the tolerance 1e-3 of the zero-sum test is the integer 2.    *)
(* A fractional coordinate s = d @ invc is carried as its numerator over   *)
(* the denominator "cell" (the 1x1 cell matrix), so s > 0.5 reads          *)
(* 2*s > cell and s - 1.0 reads s - cell.                                  *)
(* The topology is the one Scaler.scale returns: a periodic chain whose    *)
(* node spacing leaves room for the supplied templates.  Locator.locate    *)
(* and matching_permutation are modelled from their contracts: any rigid   *)
(* transform of least fit error, any assignment of least total distance.   *)
(* Python's 0-based lists are TLA+ sequences read through At(s, i).        *)
(* None is the record None for objects, <<>> for a permutation and -1 for  *)
(* an index offset.                                                        *)
(***************************************************************************)
EXTENDS Integers, Sequences, FiniteSets, TLC

VARIABLES
    topology,       \* the (scaled) topology handed back by Scaler.scale
    node_bbs,       \* argument node_bbs: sequence of templates, by node type
    edge_bbs_arg,   \* argument edge_bbs: [given, items]; given = FALSE is None
    edge_bbs,       \* the defaultdict of lines 21-24, as its items() sequence
    pc,             \* position inside build
    k,              \* cursor of the loop pc names
    err,            \* exception that left build, "" if none
    scaled,         \* Scaler.scale has been called
    located_bbs,    \* list located_bbs
    permutations,   \* list permutations
    index_offsets,  \* list index_offsets
    bb_bonds,       \* intrinsic bonds shifted to global indices
    bonds,          \* bonds between building blocks
    mof,            \* the returned MOF, None until build returns
    matched,        \* last return value of find_matched_atom_indices
    disp,           \* the displacement s of lines 146-148, None before
    obs             \* history: every <<list, index, value>> read by steps 6-9

vars == <<topology, node_bbs, edge_bbs_arg, edge_bbs, pc, k, err, scaled,
          located_bbs, permutations, index_offsets, bb_bonds, bonds, mof,
          matched, disp, obs>>

\* ------------------------------------------------------------------ bounds
\* Largest number of nodes of a topology (it has as many edges).
MaxNodes == 2

\* ----------------------------------------------------------------- helpers
None == [none |-> TRUE]

At(s, i) == s[i + 1]

Abs(x) == IF x < 0 THEN -x ELSE x

Min(S) == CHOOSE x \in S : \A y \in S : x <= y

RECURSIVE SortedSeq(_)
SortedSeq(S) == IF S = {} THEN <<>> ELSE <<Min(S)>> \o SortedSeq(S \ {Min(S)})

RECURSIVE SumSeq(_)
SumSeq(s) == IF s = <<>> THEN 0 ELSE Head(s) + SumSeq(Tail(s))

Reverse(s) == [j \in 1..Len(s) |-> s[Len(s) + 1 - j]]

\* All bijections of 0..n-1, as 0-based sequences.
Perms(n) == {p \in [1..n -> 0..(n - 1)] : \A a, b \in 1..n : p[a] = p[b] => a = b}

\* ------------------------------------------------ building-block templates
\* A template: atom count, atom positions relative to its centre, intrinsic
\* bonds over local atom indices, and the ordered connection_point_indices.
NodeBBA ==
    [n_atoms |-> 3, positions |-> <<-2000, 0, 2000>>,
     bonds |-> << <<0, 1>>, <<1, 2>> >>,
     connection_point_indices |-> <<0, 2>>]

NodeBBB ==
    [n_atoms |-> 4, positions |-> <<4000, 1000, -1000, -4000>>,
     bonds |-> << <<0, 1>>, <<1, 2>>, <<2, 3>> >>,
     connection_point_indices |-> <<3, 0>>]

EdgeBB ==
    [n_atoms |-> 2, positions |-> <<-1000, 1000>>,
     bonds |-> << <<0, 1>> >>,
     connection_point_indices |-> <<0, 1>>]

NodeLibrary == <<NodeBBA, NodeBBB>>

\* ---------------------------------------------------------------- topology
\* Tolerance of the zero-sum test, 1e-3 in units of 0.0005.
Tol == 2

\* A periodic chain of nn nodes and nn edges with nt node types: node j sits
\* at j*sp, edge j joins node j to node j+1 (mod nn) and sits half way.
\* il interleaves node and edge indices, sw reverses every node's neighbour
\* records, and bad shifts the record that edge bad.edge keeps for its
\* endpoint bad.side by bad.delta (0: a well-formed topology).
NodeIdx(nn, il, j) == IF il THEN 2 * j ELSE j

EdgeIdx(nn, il, j) == IF il THEN 2 * j + 1 ELSE nn + j

Ring(nn, nt, sp, il, sw, bad) ==
    LET nodes == {NodeIdx(nn, il, j) : j \in 0..(nn - 1)}
        edges == {EdgeIdx(nn, il, j) : j \in 0..(nn - 1)}
        NodeOf(i) == CHOOSE j \in 0..(nn - 1) : NodeIdx(nn, il, j) = i
        EdgeOf(e) == CHOOSE j \in 0..(nn - 1) : EdgeIdx(nn, il, j) = e
        Shift(j, side) ==
            IF bad.edge = j /\ bad.side = side THEN bad.delta ELSE 0
        NodeRecs(j) ==
            << [index |-> EdgeIdx(nn, il, j), distance_vector |-> sp \div 2],
               [index |-> EdgeIdx(nn, il, (j + nn - 1) % nn),
                distance_vector |-> -(sp \div 2)] >>
        EdgeRecs(j) ==
            << [index |-> NodeIdx(nn, il, j),
                distance_vector |-> -(sp \div 2) + Shift(j, 1)],
               [index |-> NodeIdx(nn, il, (j + 1) % nn),
                distance_vector |-> sp \div 2 + Shift(j, 2)] >>
        ntype == [i \in nodes |-> NodeOf(i) % nt]
    IN  [n_node_types |-> nt,
         n_all_points |-> 2 * nn,
         node_indices |-> SortedSeq(nodes),
         edge_indices |-> SortedSeq(edges),
         node_type |-> ntype,
         edge_type |->
             [e \in edges |->
                 <<ntype[NodeIdx(nn, il, EdgeOf(e))],
                   ntype[NodeIdx(nn, il, (EdgeOf(e) + 1) % nn)]>>],
         neighbor_list |->
             [p \in nodes \cup edges |->
                 IF p \in nodes
                 THEN IF sw THEN Reverse(NodeRecs(NodeOf(p)))
                            ELSE NodeRecs(NodeOf(p))
                 ELSE EdgeRecs(EdgeOf(p))],
         position |->
             [p \in nodes \cup edges |->
                 IF p \in nodes THEN sp * NodeOf(p)
                                ELSE sp * EdgeOf(p) + sp \div 2],
         cell |-> sp * nn]

WellFormed == [edge |-> -1, side |-> 0, delta |-> 0]

BadRecords(nn) ==
    {WellFormed} \cup
    [edge : 0..(nn - 1), side : {1, 2}, delta : {Tol - 1, Tol}]

\* Distance from the centre of a template to its farthest connection point.
Radius(bb) ==
    CHOOSE r \in {Abs(bb.positions[c + 1]) :
                     c \in {bb.connection_point_indices[j] :
                               j \in 1..Len(bb.connection_point_indices)}} :
        \A c \in {bb.connection_point_indices[j] :
                     j \in 1..Len(bb.connection_point_indices)} :
            Abs(bb.positions[c + 1]) <= r

\* The node spacing the Scaler gives a chain with nt node types: room for
\* the two largest neighbouring node templates and an edge template between
\* their connection points.
Spacing(nt) ==
    Radius(NodeLibrary[1]) + Radius(NodeLibrary[nt]) + 2 * Radius(EdgeBB)

\* Every node type of a topology is the type of some node.
Topologies ==
    {Ring(c.nn, c.nt, Spacing(c.nt), c.il, c.sw, c.bad) :
        c \in {x \in [nn : 1..MaxNodes, nt : 1..Len(NodeLibrary),
                      il : BOOLEAN, sw : BOOLEAN,
                      bad : BadRecords(MaxNodes)] : x.nt <= x.nn}}

Points(topo) == 0..(topo.n_all_points - 1)

SeqRange(s) == {s[j] : j \in 1..Len(s)}

\* Node templates as supplied: n of them, type t taking NodeLibrary in turn.
NodeBBs(n) == [t \in 1..n |-> NodeLibrary[((t - 1) % Len(NodeLibrary)) + 1]]

\* Edge-template mappings over the type pairs the topology uses, in a fixed
\* insertion order; each key is left out, mapped to None or mapped to EdgeBB.
KeyOrder == << <<0, 0>>, <<0, 1>>, <<1, 0>>, <<1, 1>> >>

RECURSIVE ItemsOf(_, _)
ItemsOf(f, n) ==
    IF n = 0 THEN <<>>
    ELSE LET key == KeyOrder[n]
             rest == ItemsOf(f, n - 1)
         IN  IF key \notin DOMAIN f \/ f[key] = "missing" THEN rest
             ELSE Append(rest,
                     [key |-> key,
                      bb |-> IF f[key] = "bb" THEN EdgeBB ELSE None])

EdgeMaps(topo) ==
    LET used == {topo.edge_type[e] : e \in SeqRange(topo.edge_indices)}
    IN  {ItemsOf(f, Len(KeyOrder)) : f \in [used -> {"missing", "none", "bb"}]}

\* ------------------------------------------- Locator and LocalStructure
\* A located block: the template, the rigid transform chosen by the Locator
\* (in one dimension the identity or the reflection) and the centre handed
\* to set_center.
AtomPos(loc, a) == loc.center + loc.rot * At(loc.bb.positions, a)

\* topology.local_structure(i): the neighbour directions of point i.
TopoLocal(topo, i) ==
    [j \in 1..Len(topo.neighbor_list[i]) |->
        topo.neighbor_list[i][j].distance_vector]

\* bb.local_structure(): the connection points relative to the centre.
BBLocal(loc) ==
    [j \in 1..Len(loc.bb.connection_point_indices) |->
        loc.rot * At(loc.bb.positions, loc.bb.connection_point_indices[j])]

\* Total assignment distance of permutation p between two local structures.
AssignCost(a, b, p) == SumSeq([j \in 1..Len(a) |-> Abs(a[j] - b[p[j] + 1])])

\* matching_permutation: the assignments of least total distance.
MatchingPermutations(a, b) ==
    {p \in Perms(Len(a)) :
        \A q \in Perms(Len(a)) : AssignCost(a, b, p) <= AssignCost(a, b, q)}

\* Squared fit error (in units of 1000) of a template under transform r,
\* at its best correspondence.
FitError(target, bb, r) ==
    LET loc == [bb |-> bb, rot |-> r, center |-> 0]
        Sq(p) == SumSeq([j \in 1..Len(target) |->
                    ((target[j] - BBLocal(loc)[p[j] + 1]) \div 1000)
                  * ((target[j] - BBLocal(loc)[p[j] + 1]) \div 1000)])
    IN  Min({Sq(p) : p \in Perms(Len(target))})

\* Locator.locate: the transforms of least fit error.
LocateRots(target, bb) ==
    {r \in {1, -1} :
        \A q \in {1, -1} : FitError(target, bb, r) <= FitError(target, bb, q)}

\* ------------------------------------------- find_matched_atom_indices
\* Faulty variant of FirstMatch: the atom index defaults to slot 0 when no record
\* matches.
FirstMatchDefault(topo, i, rec) ==
    LET hits == {o \in 0..(Len(topo.neighbor_list[i]) - 1) :
                    Abs(At(topo.neighbor_list[i], o).distance_vector
                        + rec.distance_vector) < Tol}
    IN  IF hits = {} THEN 0 ELSE Min(hits)

\* The first o whose record sums with rec to a norm below the tolerance;
\* -1 when the loop ends without binding the atom index.
FirstMatch(topo, i, rec) ==
    LET hits == {o \in 0..(Len(topo.neighbor_list[i]) - 1) :
                    Abs(At(topo.neighbor_list[i], o).distance_vector
                        + rec.distance_vector) < Tol}
    IN  IF hits = {} THEN -1 ELSE Min(hits)

\* Faulty variant of MatchedAtom: the atom index is taken one too high.
MatchedAtomOneBased(i, o) ==
    At(located_bbs[i].bb.connection_point_indices, At(permutations[i], o)) + 1

\* bb.connection_point_indices[perm][o] of the block located at i.
MatchedAtom(i, o) ==
    At(located_bbs[i].bb.connection_point_indices, At(permutations[i], o))

find_matched_atom_indices(e) ==
    LET n1 == At(topology.neighbor_list[e], 0)
        n2 == At(topology.neighbor_list[e], 1)
        o1 == FirstMatch(topology, n1.index, n1)
        o2 == FirstMatch(topology, n2.index, n2)
    IN  [e |-> e,
         bound |-> o1 >= 0 /\ o2 >= 0,
         a1 |-> IF o1 >= 0 THEN MatchedAtom(n1.index, o1) ELSE -1,
         a2 |-> IF o2 >= 0 THEN MatchedAtom(n2.index, o2) ELSE -1]

\* The reads find_matched_atom_indices(e) makes of the shared lists.
MatchReads(e) ==
    LET i1 == At(topology.neighbor_list[e], 0).index
        i2 == At(topology.neighbor_list[e], 1).index
    IN  [located |-> {<<i1, located_bbs[i1]>>, <<i2, located_bbs[i2]>>},
         perm |-> {<<i1, permutations[i1]>>, <<i2, permutations[i2]>>},
         offset |-> {}]

Observe(r) ==
    [located |-> obs.located \cup r.located,
     perm |-> obs.perm \cup r.perm,
     offset |-> obs.offset \cup r.offset]

\* -------------------------------------------------- minimum image
\* Lines 146-149 on one component: s is the numerator of the fractional
\* coordinate over the denominator den.
\* Faulty variant of WrapHigh: the shift is half a cell instead of a whole one.
WrapHighHalf(s, den) == IF 2 * s > den THEN s - den \div 2 ELSE s

\* Line 147: np.where(s > 0.5, s - 1.0, s).
WrapHigh(s, den) == IF 2 * s > den THEN s - den ELSE s

\* Line 148: np.where(s < -0.5, s + 1.0, s).
WrapLow(s, den) == IF 2 * s < -den THEN s + den ELSE s

MinImage(s, den) == WrapLow(WrapHigh(s, den), den)

\* Line 63: the centre of a node block.
NodeCenter(i) == topology.position[i]

\* Faulty variant of EdgeCenter: the factor 0.5 is forgotten.
EdgeCenterFull(r1, d) == r1 + d

\* Line 151: the centre of an edge block.
EdgeCenter(r1, d) == r1 + d \div 2

\* ------------------------------------------------------------ loop orders
\* Lines 55-59: for each type t in turn, the nodes of that type.
RECURSIVE NodeOrderFrom(_)
NodeOrderFrom(t) ==
    IF t >= Len(node_bbs) THEN <<>>
    ELSE SelectSeq(topology.node_indices,
                   LAMBDA i : topology.node_type[i] = t)
         \o NodeOrderFrom(t + 1)

NodeOrder == NodeOrderFrom(0)

\* Lines 122-128: for each item of edge_bbs holding a template, the edges of
\* that type.
RECURSIVE EdgeOrderFrom(_)
EdgeOrderFrom(n) ==
    IF n > Len(edge_bbs) THEN <<>>
    ELSE (IF edge_bbs[n].bb = None THEN <<>>
          ELSE SelectSeq(topology.edge_indices,
                   LAMBDA e : topology.edge_type[e] = edge_bbs[n].key))
         \o EdgeOrderFrom(n + 1)

EdgeOrder == EdgeOrderFrom(1)

\* The template edge_bbs holds for edge e (lines 122-128).
EdgeTemplate(e) ==
    LET n == CHOOSE n \in 1..Len(edge_bbs) :
                 edge_bbs[n].key = topology.edge_type[e]
    IN  edge_bbs[n].bb

\* ------------------------------------------------------------------- Init
NoObs == [located |-> {}, perm |-> {}, offset |-> {}]

Init ==
    \E topo \in Topologies :
    \E n \in (topo.n_node_types - 1)..(topo.n_node_types + 1) :
    \E arg \in {[given |-> FALSE, items |-> <<>>]}
               \cup {[given |-> TRUE, items |-> m] : m \in EdgeMaps(topo)} :
        /\ topology = topo
        /\ node_bbs = NodeBBs(n)
        /\ edge_bbs_arg = arg
        /\ edge_bbs = <<>>
        /\ pc = "start"
        /\ k = 0
        /\ err = ""
        /\ scaled = FALSE
        /\ located_bbs = <<>>
        /\ permutations = <<>>
        /\ index_offsets = <<>>
        /\ bb_bonds = <<>>
        /\ bonds = <<>>
        /\ mof = None
        /\ matched = None
        /\ disp = None
        /\ obs = NoObs

\* ---------------------------------------------------------------- actions
\* Faulty variant of CardinalityOK: surplus templates are let through.
CardinalityAtLeast == topology.n_node_types <= Len(node_bbs)

\* Line 31: the asserted condition.
CardinalityOK == topology.n_node_types = Len(node_bbs)

\* Lines 21-31: the defaultdict and the assertion on the template count.
CheckInputs ==
    /\ pc = "start"
    /\ edge_bbs' = IF edge_bbs_arg.given THEN edge_bbs_arg.items ELSE <<>>
    /\ IF CardinalityOK
       THEN pc' = "scale" /\ err' = err
       ELSE pc' = "failed" /\ err' = "AssertionError"
    /\ UNCHANGED <<topology, node_bbs, edge_bbs_arg, k, scaled, located_bbs,
                   permutations, index_offsets, bb_bonds, bonds, mof,
                   matched, disp, obs>>

\* Lines 33-51: bonds are cached, the topology is scaled, located_bbs is made.
Scale ==
    /\ pc = "scale"
    /\ scaled' = TRUE
    /\ located_bbs' = [p \in Points(topology) |-> None]
    /\ pc' = "place_nodes"
    /\ k' = 1
    /\ UNCHANGED <<topology, node_bbs, edge_bbs_arg, edge_bbs, err,
                   permutations, index_offsets, bb_bonds, bonds, mof,
                   matched, disp, obs>>

\* Lines 55-66, one node.
PlaceNode ==
    /\ pc = "place_nodes"
    /\ k <= Len(NodeOrder)
    /\ LET i == NodeOrder[k]
           node_bb == node_bbs[topology.node_type[i] + 1]
       IN  \E r \in LocateRots(TopoLocal(topology, i), node_bb) :
               located_bbs' =
                   [located_bbs EXCEPT ![i] =
                       [bb |-> node_bb, rot |-> r,
                        center |-> NodeCenter(i)]]
    /\ k' = k + 1
    /\ UNCHANGED <<topology, node_bbs, edge_bbs_arg, edge_bbs, pc, err, scaled,
                   permutations, index_offsets, bb_bonds, bonds, mof,
                   matched, disp, obs>>

\* Line 70: the permutations list is made.
BeginNodePerms ==
    /\ pc = "place_nodes"
    /\ k > Len(NodeOrder)
    /\ permutations' = [p \in Points(topology) |-> <<>>]
    /\ pc' = "node_perms"
    /\ k' = 1
    /\ UNCHANGED <<topology, node_bbs, edge_bbs_arg, edge_bbs, err, scaled,
                   located_bbs, index_offsets, bb_bonds, bonds, mof,
                   matched, disp, obs>>

\* Lines 71-78, one node.
NodePerm ==
    /\ pc = "node_perms"
    /\ k <= Len(topology.node_indices)
    /\ LET i == topology.node_indices[k]
       IN  \E perm \in MatchingPermutations(TopoLocal(topology, i),
                                            BBLocal(located_bbs[i])) :
               permutations' = [permutations EXCEPT ![i] = perm]
    /\ k' = k + 1
    /\ UNCHANGED <<topology, node_bbs, edge_bbs_arg, edge_bbs, pc, err, scaled,
                   located_bbs, index_offsets, bb_bonds, bonds, mof,
                   matched, disp, obs>>

\* Lines 119-121: cell and inverse cell; the edge loop starts.
BeginPlaceEdges ==
    /\ pc = "node_perms"
    /\ k > Len(topology.node_indices)
    /\ pc' = "place_edges"
    /\ k' = 1
    /\ UNCHANGED <<topology, node_bbs, edge_bbs_arg, edge_bbs, err, scaled,
                   located_bbs, permutations, index_offsets, bb_bonds, bonds,
                   mof, matched, disp, obs>>

\* Lines 125-159, one edge whose type has a template.
PlaceEdge ==
    /\ pc = "place_edges"
    /\ k <= Len(EdgeOrder)
    /\ LET e == EdgeOrder[k]
           i1 == At(topology.neighbor_list[e], 0).index
           i2 == At(topology.neighbor_list[e], 1).index
           m == find_matched_atom_indices(e)
       IN  /\ matched' = m
           /\ obs' = Observe(MatchReads(e))
           /\ IF ~m.bound
              THEN /\ pc' = "failed"
                   /\ err' = "UnboundLocalError"
                   /\ UNCHANGED <<located_bbs, k, disp>>
              ELSE IF \/ m.a1 >= located_bbs[i1].bb.n_atoms
                      \/ m.a2 >= located_bbs[i2].bb.n_atoms
              THEN \* lines 140-141: positions[a] past the last atom
                   /\ pc' = "failed"
                   /\ err' = "IndexError"
                   /\ UNCHANGED <<located_bbs, k, disp>>
              ELSE LET r1 == AtomPos(located_bbs[i1], m.a1)
                       r2 == AtomPos(located_bbs[i2], m.a2)
                       d == MinImage(r2 - r1, topology.cell)
                       center == EdgeCenter(r1, d)
                       target == <<r1 - center, r1 + d - center>>
                       edge_bb == EdgeTemplate(e)
                   IN  /\ \E r \in LocateRots(target, edge_bb) :
                              located_bbs' =
                                  [located_bbs EXCEPT ![e] =
                                      [bb |-> edge_bb, rot |-> r,
                                       center |-> center]]
                       /\ disp' = [raw |-> r2 - r1, s |-> d,
                                    den |-> topology.cell, step |-> 2]
                       /\ k' = k + 1
                       /\ UNCHANGED <<pc, err>>
    /\ UNCHANGED <<topology, node_bbs, edge_bbs_arg, edge_bbs, scaled,
                   permutations, index_offsets, bb_bonds, bonds, mof>>

\* Line 162: the edge-permutation loop starts.
BeginEdgePerms ==
    /\ pc = "place_edges"
    /\ k > Len(EdgeOrder)
    /\ pc' = "edge_perms"
    /\ k' = 1
    /\ UNCHANGED <<topology, node_bbs, edge_bbs_arg, edge_bbs, err, scaled,
                   located_bbs, permutations, index_offsets, bb_bonds, bonds,
                   mof, matched, disp, obs>>

\* Lines 162-171, one edge; an edge without a block is skipped.
EdgePerm ==
    /\ pc = "edge_perms"
    /\ k <= Len(topology.edge_indices)
    /\ LET i == topology.edge_indices[k]
           bb == located_bbs[i]
       IN  /\ obs' = Observe([NoObs EXCEPT !.located = {<<i, bb>>}])
           /\ IF bb = None
              THEN permutations' = permutations
              ELSE \E perm \in MatchingPermutations(TopoLocal(topology, i),
                                                    BBLocal(bb)) :
                       permutations' = [permutations EXCEPT ![i] = perm]
    /\ k' = k + 1
    /\ UNCHANGED <<topology, node_bbs, edge_bbs_arg, edge_bbs, pc, err, scaled,
                   located_bbs, index_offsets, bb_bonds, bonds, mof, matched, disp>>

\* Lines 176-177: the offsets list is made and its first entry set.
BeginOffsets ==
    /\ pc = "edge_perms"
    /\ k > Len(topology.edge_indices)
    /\ index_offsets' = [p \in Points(topology) |-> IF p = 0 THEN 0 ELSE -1]
    /\ pc' = "offsets"
    /\ k' = 0
    /\ UNCHANGED <<topology, node_bbs, edge_bbs_arg, edge_bbs, err, scaled,
                   located_bbs, permutations, bb_bonds, bonds, mof,
                   matched, disp, obs>>

\* Faulty variant of NextOffset: an absent slot is counted as one atom.
NextOffsetCountsAbsent(prev, bb) ==
    IF bb = None THEN prev + 1 ELSE prev + bb.bb.n_atoms

\* Lines 179-182: the offset that follows a slot holding bb.
NextOffset(prev, bb) == IF bb = None THEN prev + 0 ELSE prev + bb.bb.n_atoms

\* Lines 178-182, one slot of located_bbs[:-1].
Offset ==
    /\ pc = "offsets"
    /\ k <= topology.n_all_points - 2
    /\ index_offsets' =
           [index_offsets EXCEPT
               ![k + 1] = NextOffset(index_offsets[k], located_bbs[k])]
    /\ obs' = Observe([NoObs EXCEPT !.located = {<<k, located_bbs[k]>>},
                                    !.offset = {<<k, index_offsets[k]>>}])
    /\ k' = k + 1
    /\ UNCHANGED <<topology, node_bbs, edge_bbs_arg, edge_bbs, pc, err, scaled,
                   located_bbs, permutations, bb_bonds, bonds, mof, matched, disp>>

\* Line 188: bb.bonds + offset.
ShiftBonds(bb, offset) ==
    [j \in 1..Len(bb.bb.bonds) |->
        <<bb.bb.bonds[j][1] + offset, bb.bb.bonds[j][2] + offset>>]

\* Lines 184-189: the shifted intrinsic bonds of every located block.
RECURSIVE BBBondsFrom(_)
BBBondsFrom(p) ==
    IF p >= topology.n_all_points THEN <<>>
    ELSE (IF located_bbs[p] = None THEN <<>>
          ELSE ShiftBonds(located_bbs[p], index_offsets[p]))
         \o BBBondsFrom(p + 1)

AllReads ==
    [located |-> {<<p, located_bbs[p]>> : p \in Points(topology)},
     perm |-> {},
     offset |-> {<<p, index_offsets[p]>> : p \in Points(topology)}]

\* Faulty variant of OffsetsDone: bond assembly starts after the first offset.
OffsetsDoneEarly == k > 0

\* Line 178: the loop over located_bbs[:-1] has ended.
OffsetsDone == k > topology.n_all_points - 2

BBBonds ==
    /\ pc = "offsets"
    /\ OffsetsDone
    /\ bb_bonds' = BBBondsFrom(0)
    /\ obs' = Observe(AllReads)
    /\ pc' = "bonds"
    /\ k' = 1
    /\ UNCHANGED <<topology, node_bbs, edge_bbs_arg, edge_bbs, err, scaled,
                   located_bbs, permutations, index_offsets, bonds, mof,
                   matched, disp>>

\* Faulty variant of EdgeBonds: an edge block is bonded on one side only.
EdgeBondsOneOnly(j, m) ==
    LET i1 == At(topology.neighbor_list[j], 0).index
        i2 == At(topology.neighbor_list[j], 1).index
        a1 == m.a1 + index_offsets[i1]
        a2 == m.a2 + index_offsets[i2]
    IN  IF located_bbs[j] # None
        THEN LET cpi == located_bbs[j].bb.connection_point_indices
                 perm == permutations[j]
                 e1 == At(cpi, At(perm, 0)) + index_offsets[j]
             IN  << <<e1, a1>> >>
        ELSE << <<a1, a2>> >>

\* Faulty variant of EdgeBonds: an edge without a block gets no bond.
EdgeBondsSkipAbsent(j, m) ==
    LET i1 == At(topology.neighbor_list[j], 0).index
        i2 == At(topology.neighbor_list[j], 1).index
        a1 == m.a1 + index_offsets[i1]
        a2 == m.a2 + index_offsets[i2]
    IN  IF located_bbs[j] # None
        THEN LET cpi == located_bbs[j].bb.connection_point_indices
                 perm == permutations[j]
                 e1 == At(cpi, At(perm, 0)) + index_offsets[j]
                 e2 == At(cpi, At(perm, 1)) + index_offsets[j]
             IN  << <<e1, a1>>, <<e2, a2>> >>
        ELSE <<>>

\* Lines 199-215: the bonds emitted for edge j, given the matched pair m.
EdgeBonds(j, m) ==
    LET i1 == At(topology.neighbor_list[j], 0).index
        i2 == At(topology.neighbor_list[j], 1).index
        a1 == m.a1 + index_offsets[i1]
        a2 == m.a2 + index_offsets[i2]
    IN  IF located_bbs[j] # None
        THEN LET cpi == located_bbs[j].bb.connection_point_indices
                 perm == permutations[j]
                 e1 == At(cpi, At(perm, 0)) + index_offsets[j]
                 e2 == At(cpi, At(perm, 1)) + index_offsets[j]
             IN  << <<e1, a1>>, <<e2, a2>> >>
        ELSE << <<a1, a2>> >>

BondReads(j) ==
    LET i1 == At(topology.neighbor_list[j], 0).index
        i2 == At(topology.neighbor_list[j], 1).index
        own == located_bbs[j] # None
    IN  [located |-> {<<j, located_bbs[j]>>},
         perm |-> IF own THEN {<<j, permutations[j]>>} ELSE {},
         offset |-> {<<i1, index_offsets[i1]>>, <<i2, index_offsets[i2]>>}
                    \cup (IF own THEN {<<j, index_offsets[j]>>} ELSE {})]

\* Lines 195-217, one edge.
EdgeBond ==
    /\ pc = "bonds"
    /\ k <= Len(topology.edge_indices)
    /\ LET j == topology.edge_indices[k]
           m == find_matched_atom_indices(j)
       IN  /\ matched' = m
           /\ IF ~m.bound
              THEN /\ pc' = "failed"
                   /\ err' = "UnboundLocalError"
                   /\ obs' = Observe(MatchReads(j))
                   /\ UNCHANGED <<bonds, k>>
              ELSE /\ bonds' = bonds \o EdgeBonds(j, m)
                   /\ obs' = [located |-> obs.located \cup MatchReads(j).located
                                          \cup BondReads(j).located,
                              perm |-> obs.perm \cup MatchReads(j).perm
                                       \cup BondReads(j).perm,
                              offset |-> obs.offset \cup BondReads(j).offset]
                   /\ k' = k + 1
                   /\ UNCHANGED <<pc, err>>
    /\ UNCHANGED <<topology, node_bbs, edge_bbs_arg, edge_bbs, scaled,
                   located_bbs, permutations, index_offsets, bb_bonds, mof,
                   disp>>

\* Lines 226-228: the atoms of every located block, in index order.
BlockAtoms(p) ==
    [a \in 1..located_bbs[p].bb.n_atoms |->
        [block |-> p, atom |-> a - 1,
         position |-> AtomPos(located_bbs[p], a - 1)]]

\* Faulty variant of AtomsFrom: the first block is summed in twice.
RECURSIVE AtomsFromDupFirst(_)
AtomsFromDupFirst(p) ==
    IF p >= topology.n_all_points THEN <<>>
    ELSE (IF located_bbs[p] = None THEN <<>>
          ELSE IF p = 0 THEN BlockAtoms(p) \o BlockAtoms(p)
          ELSE BlockAtoms(p))
         \o AtomsFromDupFirst(p + 1)

RECURSIVE AtomsFrom(_)
AtomsFrom(p) ==
    IF p >= topology.n_all_points THEN <<>>
    ELSE (IF located_bbs[p] = None THEN <<>> ELSE BlockAtoms(p))
         \o AtomsFrom(p + 1)

\* Lines 219-235: all bonds, all atoms, the MOF is returned.
Assemble ==
    /\ pc = "bonds"
    /\ k > Len(topology.edge_indices)
    /\ mof' = [atoms |-> AtomsFrom(0),
               bonds |-> bb_bonds \o bonds,
               cell |-> topology.cell]
    /\ pc' = "done"
    /\ UNCHANGED <<topology, node_bbs, edge_bbs_arg, edge_bbs, k, err, scaled,
                   located_bbs, permutations, index_offsets, bb_bonds, bonds,
                   matched, disp, obs>>

Next ==
    \/ CheckInputs
    \/ Scale
    \/ PlaceNode
    \/ BeginNodePerms
    \/ NodePerm
    \/ BeginPlaceEdges
    \/ PlaceEdge
    \/ BeginEdgePerms
    \/ EdgePerm
    \/ BeginOffsets
    \/ Offset
    \/ BBBonds
    \/ EdgeBond
    \/ Assemble

Spec == Init /\ [][Next]_vars

\* ------------------------------------------ the minimum-image wrap alone
\* Denominator of the fractional coordinates tried: 2 * HalfDen.
HalfDen == 10

FracDen == 2 * HalfDen

\* Line 146: s = d @ invc, any fraction between -2 and 2.
InitWrap ==
    \E s \in (-(2 * FracDen))..(2 * FracDen) :
        /\ disp = [raw |-> s, s |-> s, den |-> FracDen, step |-> 0]
        /\ pc = "wrap"
        /\ topology = Ring(1, 1, Spacing(1), FALSE, FALSE, WellFormed)
        /\ node_bbs = NodeBBs(1)
        /\ edge_bbs_arg = [given |-> FALSE, items |-> <<>>]
        /\ edge_bbs = <<>>
        /\ k = 0
        /\ err = ""
        /\ scaled = TRUE
        /\ located_bbs = <<>>
        /\ permutations = <<>>
        /\ index_offsets = <<>>
        /\ bb_bonds = <<>>
        /\ bonds = <<>>
        /\ mof = None
        /\ matched = None
        /\ obs = NoObs

\* Line 147.
StepWrapHigh ==
    /\ pc = "wrap"
    /\ disp.step = 0
    /\ disp' = [disp EXCEPT !.s = WrapHigh(disp.s, disp.den), !.step = 1]
    /\ UNCHANGED <<topology, node_bbs, edge_bbs_arg, edge_bbs, pc, k, err,
                   scaled, located_bbs, permutations, index_offsets, bb_bonds,
                   bonds, mof, matched, obs>>

\* Line 148.
StepWrapLow ==
    /\ pc = "wrap"
    /\ disp.step = 1
    /\ disp' = [disp EXCEPT !.s = WrapLow(disp.s, disp.den), !.step = 2]
    /\ UNCHANGED <<topology, node_bbs, edge_bbs_arg, edge_bbs, pc, k, err,
                   scaled, located_bbs, permutations, index_offsets, bb_bonds,
                   bonds, mof, matched, obs>>

NextWrap == StepWrapHigh \/ StepWrapLow

SpecWrap == InitWrap /\ [][NextWrap]_vars

\* ================================================================ claims
Nodes == SeqRange(topology.node_indices)

Edges == SeqRange(topology.edge_indices)

HasBlock(p) == located_bbs[p] # None

AtomCount(p) == IF located_bbs[p] = None THEN 0 ELSE located_bbs[p].bb.n_atoms

End1(e) == At(topology.neighbor_list[e], 0).index

End2(e) == At(topology.neighbor_list[e], 1).index

\* The argument edge_bbs maps the type pair of e to a template.
ArgTemplate(e) ==
    /\ edge_bbs_arg.given
    /\ \E n \in 1..Len(edge_bbs_arg.items) :
           /\ edge_bbs_arg.items[n].key = topology.edge_type[e]
           /\ edge_bbs_arg.items[n].bb # None

\* The argument edge_bbs maps the type pair of e to None.
ArgNoneValue(e) ==
    /\ edge_bbs_arg.given
    /\ \E n \in 1..Len(edge_bbs_arg.items) :
           /\ edge_bbs_arg.items[n].key = topology.edge_type[e]
           /\ edge_bbs_arg.items[n].bb = None

\* Some endpoint of e has no neighbour record within the tolerance of the
\* opposite of the record e keeps for it.
Malformed(e) ==
    \E side \in {0, 1} :
        LET rec == At(topology.neighbor_list[e], side)
        IN  \A o \in 1..Len(topology.neighbor_list[rec.index]) :
                Abs(topology.neighbor_list[rec.index][o].distance_vector
                    + rec.distance_vector) >= Tol

\* Number of bonds the edges before position idx of edge_indices account for.
BondStart(idx) ==
    SumSeq([n \in 1..(idx - 1) |->
               IF ArgTemplate(topology.edge_indices[n]) THEN 2 ELSE 1])

\* The block that owns global atom index g of the assembled structure.
Owner(g) == mof.atoms[g + 1].block

\* C1: after a successful build the number of bonds of the structure is the
\* sum of the intrinsic bond counts of all located blocks, plus 2 for every
\* edge with a located block, plus 1 for every edge without one.
C1_BondCount ==
    pc = "done" =>
        Len(mof.bonds) =
            SumSeq([q \in 1..topology.n_all_points |->
                       IF HasBlock(q - 1)
                       THEN Len(located_bbs[q - 1].bb.bonds) ELSE 0])
            + 2 * Cardinality({e \in Edges : HasBlock(e)})
            + Cardinality({e \in Edges : ~HasBlock(e)})

C1_Witness ==
    /\ pc = "done"
    /\ \E e1, e2 \in Edges : HasBlock(e1) /\ ~HasBlock(e2)
    /\ Len(mof.bonds) > Len(bb_bonds)

\* The offsets follow the prefix-sum recurrence and are non-negative and
\* non-decreasing.
OffsetRecurrence ==
    /\ index_offsets[0] = 0
    /\ \A i \in 0..(topology.n_all_points - 2) :
           /\ index_offsets[i + 1] = index_offsets[i] + AtomCount(i)
           /\ index_offsets[i + 1] >= index_offsets[i]
    /\ \A i \in Points(topology) : index_offsets[i] >= 0

\* The located block of highest index.
LastExisting == CHOOSE p \in Points(topology) :
    HasBlock(p) /\ \A q \in Points(topology) : HasBlock(q) => q <= p

\* C2 as stated: the recurrence holds, and the final offset plus the atom
\* count of the last existing block is the total atom count.
C2_Original ==
    /\ pc \in {"bonds", "done"} => OffsetRecurrence
    /\ pc = "done" =>
           index_offsets[topology.n_all_points - 1] + AtomCount(LastExisting)
               = Len(mof.atoms)

\* C2 as amended: the recurrence holds, and the final offset plus the atom
\* count of the block at the last point (zero when that slot is absent) is
\* the total atom count.
C2_Offsets ==
    /\ pc \in {"bonds", "done"} => OffsetRecurrence
    /\ pc = "done" =>
           index_offsets[topology.n_all_points - 1]
               + AtomCount(topology.n_all_points - 1)
               = Len(mof.atoms)

C2_Witness ==
    /\ pc = "done"
    /\ ~HasBlock(topology.n_all_points - 1)
    /\ \E p \in Points(topology) :
           /\ p < topology.n_all_points - 1
           /\ ~HasBlock(p)
           /\ index_offsets[p + 1] = index_offsets[p]
           /\ index_offsets[p] > 0

\* C3 as stated: every raw fractional component of magnitude 0.5 or more
\* (the boundary values and magnitudes above 1.5 included) is wrapped into
\* [-0.5, 0.5).
C3_Original ==
    (disp # None /\ disp.step = 2 /\ 2 * Abs(disp.raw) >= disp.den) =>
        (-disp.den <= 2 * disp.s /\ 2 * disp.s < disp.den)

\* C3 as amended: a raw fractional component of magnitude above 0.5 and
\* below 1.5 is wrapped into [-0.5, 0.5); the value +0.5 is left at +0.5,
\* and a magnitude above 1.5 is shifted by one cell only and stays outside
\* the interval.
C3_MinImage ==
    (disp # None /\ disp.step = 2) =>
        /\ (disp.den < 2 * Abs(disp.raw) /\ 2 * Abs(disp.raw) < 3 * disp.den)
               => (-disp.den <= 2 * disp.s /\ 2 * disp.s < disp.den)
        /\ 2 * disp.raw = disp.den => disp.s = disp.raw
        /\ 2 * disp.raw = -disp.den => disp.s = disp.raw
        /\ 2 * disp.raw > 3 * disp.den
               => (disp.s = disp.raw - disp.den /\ 2 * disp.s > disp.den)
        /\ 2 * disp.raw < -3 * disp.den
               => (disp.s = disp.raw + disp.den /\ 2 * disp.s < -disp.den)

C3_Witness ==
    /\ disp # None
    /\ disp.step = 2
    /\ 2 * disp.raw > disp.den
    /\ 2 * disp.raw < 3 * disp.den
    /\ disp.s = disp.raw - disp.den

\* C4 as stated: the pair returned by find_matched_atom_indices lies in the
\* global atom-index ranges of the blocks at the two endpoints.
C4_Original ==
    (matched # None /\ matched.bound /\ pc \in {"bonds", "done"}) =>
        /\ index_offsets[End1(matched.e)] <= matched.a1
        /\ matched.a1 < index_offsets[End1(matched.e)]
                            + AtomCount(End1(matched.e))
        /\ index_offsets[End2(matched.e)] <= matched.a2
        /\ matched.a2 < index_offsets[End2(matched.e)]
                            + AtomCount(End2(matched.e))

\* C4 as amended: the pair returned by find_matched_atom_indices holds
\* block-local indices, each within [0, atom count) of the block at its
\* endpoint; only after build adds the endpoint's offset (lines 202-203) do
\* they lie in the endpoint's global range, as the node side of every
\* emitted bond does.
C4_MatchedRange ==
    /\ (matched # None /\ matched.bound) =>
           /\ 0 <= matched.a1
           /\ matched.a1 < AtomCount(End1(matched.e))
           /\ 0 <= matched.a2
           /\ matched.a2 < AtomCount(End2(matched.e))
    /\ pc = "done" =>
           \A idx \in 1..Len(topology.edge_indices) :
               LET e == topology.edge_indices[idx]
                   st == BondStart(idx)
                   g1 == IF HasBlock(e) THEN bonds[st + 1][2]
                                        ELSE bonds[st + 1][1]
                   g2 == IF HasBlock(e) THEN bonds[st + 2][2]
                                        ELSE bonds[st + 1][2]
               IN  /\ index_offsets[End1(e)] <= g1
                   /\ g1 < index_offsets[End1(e)] + AtomCount(End1(e))
                   /\ index_offsets[End2(e)] <= g2
                   /\ g2 < index_offsets[End2(e)] + AtomCount(End2(e))

C4_Witness ==
    /\ pc = "done"
    /\ matched # None
    /\ matched.bound
    /\ index_offsets[End1(matched.e)] > matched.a1
    /\ matched.a1 < AtomCount(End1(matched.e))

\* C5 as stated: every located block, node or edge, has the centre
\* topology.position of its point.
C5_Original ==
    scaled =>
        \A p \in DOMAIN located_bbs :
            HasBlock(p) => located_bbs[p].center = topology.position[p]

\* C5 as amended: every located node block has the centre topology.position
\* of its point; an edge block has the centre r1 + 0.5*d, the point half way
\* from the matched atom r1 to r1 + d, where d equals r2 - r1 up to whole
\* cells, and this centre need not be the topology position of the edge.
C5_Centers ==
    scaled =>
        \A p \in DOMAIN located_bbs :
            HasBlock(p) =>
                IF p \in Nodes
                THEN located_bbs[p].center = topology.position[p]
                ELSE LET m == find_matched_atom_indices(p)
                         r1 == AtomPos(located_bbs[End1(p)], m.a1)
                         r2 == AtomPos(located_bbs[End2(p)], m.a2)
                         d == 2 * (located_bbs[p].center - r1)
                     IN  /\ m.bound
                         /\ (d - (r2 - r1)) % topology.cell = 0

C5_Witness ==
    /\ pc = "done"
    /\ \E e \in Edges :
           /\ HasBlock(e)
           /\ located_bbs[e].center # topology.position[e]
    /\ \A i \in Nodes : located_bbs[i].center = topology.position[i]

\* C6: when the number of node templates differs from n_node_types, build
\* fails on the assertion before the topology is scaled, before located_bbs
\* exists, and returns no structure.
C6_Cardinality ==
    /\ topology.n_node_types # Len(node_bbs) =>
           /\ pc \in {"start", "failed"}
           /\ pc = "failed" => err = "AssertionError"
           /\ ~scaled
           /\ DOMAIN located_bbs = {}
           /\ mof = None
    /\ err = "AssertionError" =>
           (topology.n_node_types # Len(node_bbs) /\ ~scaled /\ mof = None)

C6_Witness ==
    /\ pc = "failed"
    /\ err = "AssertionError"
    /\ Len(node_bbs) > topology.n_node_types
    /\ ~scaled

\* C7: when an endpoint of edge e has no neighbour record that sums with
\* the edge's own record to a norm below 1e-3, the call of
\* find_matched_atom_indices(e) raises (the atom index is unbound at the
\* return of line 117), build is aborted without a structure, and no block
\* is placed and no bond emitted for e from a stale or default index.
C7_MissingRecord ==
    /\ (matched # None /\ Malformed(matched.e)) =>
           /\ ~matched.bound
           /\ pc = "failed"
           /\ err = "UnboundLocalError"
           /\ mof = None
           /\ ~HasBlock(matched.e)
    /\ (scaled /\ pc # "wrap") =>
           \A idx \in 1..Len(topology.edge_indices) :
               Malformed(topology.edge_indices[idx]) =>
                   /\ Len(bonds) <= BondStart(idx)
                   /\ pc # "done"
                   /\ mof = None

C7_Witness ==
    /\ pc = "failed"
    /\ err = "UnboundLocalError"
    /\ matched # None
    /\ Malformed(matched.e)
    /\ ~matched.bound
    /\ mof = None

\* C8: an edge whose type pair has no template (edge_bbs omitted, key
\* missing, or value None) is no error: build succeeds on a well-formed
\* topology, the edge's slot of located_bbs stays absent and exactly one
\* bond joins the matched atoms of its two endpoint blocks; an edge whose
\* type pair is mapped to a template gets a located block and exactly two
\* bonds, each from an atom of the edge block to an atom of one endpoint.
C8_AbsentEdges ==
    /\ pc = "failed" =>
           \/ topology.n_node_types # Len(node_bbs)
           \/ \E e \in Edges : Malformed(e)
    /\ pc = "done" =>
           /\ Len(bonds) = BondStart(Len(topology.edge_indices) + 1)
           /\ \A idx \in 1..Len(topology.edge_indices) :
                  LET e == topology.edge_indices[idx]
                      st == BondStart(idx)
                  IN  IF ArgTemplate(e)
                      THEN /\ HasBlock(e)
                           /\ Owner(bonds[st + 1][1]) = e
                           /\ Owner(bonds[st + 1][2]) = End1(e)
                           /\ Owner(bonds[st + 2][1]) = e
                           /\ Owner(bonds[st + 2][2]) = End2(e)
                           /\ bonds[st + 1][1] # bonds[st + 2][1]
                      ELSE /\ ~HasBlock(e)
                           /\ Owner(bonds[st + 1][1]) = End1(e)
                           /\ Owner(bonds[st + 1][2]) = End2(e)

C8_Witness ==
    /\ pc = "done"
    /\ \E e1, e2 \in Edges :
           /\ ArgTemplate(e1)
           /\ HasBlock(e1)
           /\ ArgNoneValue(e2)
           /\ ~HasBlock(e2)

\* C9: the steps of build are ordered barriers: every entry of located_bbs,
\* permutations and index_offsets that edge placement, edge permutation or
\* bond assembly has read still holds the value that was read (it was final
\* when read and is never written afterwards); no edge is placed before
\* every node is located and has its permutation; no bond is emitted before
\* every offset is computed.
C9_Barriers ==
    /\ \A x \in obs.located : located_bbs[x[1]] = x[2]
    /\ \A x \in obs.perm : permutations[x[1]] = x[2]
    /\ \A x \in obs.offset : index_offsets[x[1]] = x[2]
    /\ (scaled /\ pc # "wrap" /\ \E e \in Edges : HasBlock(e)) =>
           \A i \in Nodes : HasBlock(i) /\ permutations[i] # <<>>
    /\ (bb_bonds # <<>> \/ bonds # <<>>) =>
           \A p \in Points(topology) : index_offsets[p] >= 0

C9_Witness ==
    /\ pc = "done"
    /\ obs.perm # {}
    /\ obs.offset # {}
    /\ \E e \in Edges : HasBlock(e) /\ <<e, located_bbs[e]>> \in obs.located
    /\ \E e \in Edges : ~HasBlock(e)

\* C10: in the assembled structure the atom at global position
\* offset[p] + a is atom a of located[p], for every located block p and
\* every local index a; blocks appear in point-index order and absent slots
\* take no positions.
C10_IndexConsistency ==
    pc = "done" =>
        /\ Len(mof.atoms) =
               SumSeq([q \in 1..topology.n_all_points |-> AtomCount(q - 1)])
        /\ \A p \in Points(topology) :
               HasBlock(p) =>
                   \A a \in 0..(AtomCount(p) - 1) :
                       /\ mof.atoms[index_offsets[p] + a + 1].block = p
                       /\ mof.atoms[index_offsets[p] + a + 1].atom = a
                       /\ mof.atoms[index_offsets[p] + a + 1].position
                              = AtomPos(located_bbs[p], a)
        /\ \A g, h \in 1..Len(mof.atoms) :
               g < h => mof.atoms[g].block <= mof.atoms[h].block
        /\ \A g \in 1..Len(mof.atoms) : HasBlock(mof.atoms[g].block)

C10_Witness ==
    /\ pc = "done"
    /\ \E p, q \in Points(topology) :
           /\ p < q
           /\ ~HasBlock(p)
           /\ HasBlock(q)
           /\ index_offsets[q] = index_offsets[p]
           /\ index_offsets[q] > 0
           /\ mof.atoms[index_offsets[q] + 1].block = q

====
